---- MODULE Spec2Model ----
(***************************************************************************)
(* Model of voice_recognition.py: the AdvancedVoiceRecognition pipeline    *)
(* (audio callback -> queue -> recognition loop -> history), main()'s      *)
(* lifecycle control, and the pure text post-processor process_text.       *)
(*                                                                         *)
(* Text is a sequence of one-character strings, so that split(), lower()   *)
(* and join() are computed character by character as Python computes them. *)
(***************************************************************************)
EXTENDS Integers, Sequences, FiniteSets, TLC

VARIABLES
    running,              \* self.running
    q,                    \* self.q : queue.Queue of audio chunks (FIFO)
    recognition_history,  \* contents of the list object self.recognition_history
    stream,               \* "closed" | "open" : the sd.RawInputStream context
    recPc,                \* position of the recognition thread in start_recognition
    audio_chunk,          \* local audio_chunk of start_recognition (0 = none)
    result,               \* local result of start_recognition
    logged,               \* last utterance-level line written by self.logger.info
    mainPc,               \* position of main()
    exitCode,             \* process exit code (-1 while running)
    history,              \* main()'s local `history` (a reference, or NoRef)
    printed,              \* the count printed by main() (-1 = nothing printed)
    captured,             \* number of chunks the callback has enqueued so far
    fedLog,               \* what the Transducer reported for each chunk fed to it
    openFailed,           \* the stream failed to open in start_recognition
    loopError,            \* an exception left the while loop in mid-session
    startOutcome,         \* how start_recognition() ended for its caller
    stopMark,             \* where the loop was when main() called stop_recognition
    snapshot,             \* reference held by a client of get_recognition_history
    snapshotWas,          \* contents of that list at the time it was returned
    clearBase,            \* number of results appended before the last clear
    apiCalls,             \* number of client API calls made
    text,                 \* input of process_text (text specification)
    processed,            \* process_text(text)
    reprocessed,          \* process_text(processed)
    textPc                \* "input" | "once" | "twice"

pipeVars == <<running, q, recognition_history, stream, recPc, audio_chunk, result,
              logged, mainPc, exitCode, history, printed, captured, fedLog,
              openFailed, loopError, startOutcome, stopMark>>
apiVars  == <<snapshot, snapshotWas, clearBase, apiCalls>>
textVars == <<text, processed, reprocessed, textPc>>
vars     == <<pipeVars, apiVars, textVars>>

---------------------------------------------------------------------------
(* Bounds *)
MaxChunks   == 3   \* chunks the audio callback delivers in one run
MaxPieces   == 3   \* pieces concatenated to form an input of process_text
MaxApiCalls == 1   \* client calls of get_recognition_history / clear_history

---------------------------------------------------------------------------
(* Text: str.split(), str.lower(), dict.get(), str.join() *)

Whitespace == {" ", "\t"}

isspace(c) == c \in Whitespace

Uppers == <<"A","B","C","D","E","F","G","H","I","J","K","L","M",
            "N","O","P","Q","R","S","T","U","V","W","X","Y","Z">>
Lowers == <<"a","b","c","d","e","f","g","h","i","j","k","l","m",
            "n","o","p","q","r","s","t","u","v","w","x","y","z">>

lower_char(c) ==
    IF \E i \in 1..Len(Uppers) : Uppers[i] = c
    THEN Lowers[CHOOSE i \in 1..Len(Uppers) : Uppers[i] = c]
    ELSE c

lower(word) == [i \in 1..Len(word) |-> lower_char(word[i])]

\* text.split(): runs of whitespace separate tokens; leading and trailing
\* whitespace yields no empty token.
RECURSIVE split_scan(_, _, _, _)
split_scan(s, i, cur, acc) ==
    IF i > Len(s)
    THEN IF cur # <<>> THEN Append(acc, cur) ELSE acc
    ELSE IF isspace(s[i])
         THEN split_scan(s, i + 1, <<>>, IF cur # <<>> THEN Append(acc, cur) ELSE acc)
         ELSE split_scan(s, i + 1, Append(cur, s[i]), acc)

split(s) == split_scan(s, 1, <<>>, <<>>)

\* " ".join(words)
RECURSIVE join(_, _)
join(sep, words) ==
    IF words = <<>> THEN <<>>
    ELSE IF Len(words) = 1 THEN words[1]
    ELSE words[1] \o sep \o join(sep, Tail(words))

symbol_keys == { <<"d","a","s","h">>,
                 <<"h","y","p","h","e","n">>,
                 <<"m","i","n","u","s">> }

\* a mapping whose value is itself a mapped word
MutantChainedMappings ==
    [k \in symbol_keys |->
        IF k = <<"d","a","s","h">> THEN <<"m","i","n","u","s">> ELSE <<"-">>]
symbol_mappings == [k \in symbol_keys |-> <<"-">>]

\* dict.get(key, default)
symbol_get(key, default) ==
    IF key \in DOMAIN symbol_mappings THEN symbol_mappings[key] ELSE default

\* processed_word = self.symbol_mappings.get(word.lower(), word)
MutantCaseSensitiveWord(word) == symbol_get(word, word)
MutantSubstringWord(word) ==
    IF \E i \in 1..Len(word), j \in 1..Len(word) :
          i <= j /\ lower(SubSeq(word, i, j)) \in symbol_keys
    THEN <<"-">> ELSE word
process_word(word) == symbol_get(lower(word), word)

process_text(s) ==
    LET words == split(s)
        processed_words == [i \in 1..Len(words) |-> process_word(words[i])]
    IN  join(<<" ">>, processed_words)

---------------------------------------------------------------------------
(* Recognition results.  Confidences are in thousandths, times in hundredths *)
(* of a second, so that the values of the source are integers here.          *)

Word(c, s, e) == [conf |-> c, start |-> s, end |-> e]

\* What the Transducer (KaldiRecognizer) reports for one chunk: AcceptWaveform's
\* boolean and, when it is true, the parsed Result(): "text" and, optionally,
\* the word list "result".
Hypothesis(f, t, hr, ws) == [final |-> f, text |-> t, has_result |-> hr, result |-> ws]

Outcomes ==
    { Hypothesis(FALSE, <<>>, FALSE, <<>>),                      \* not yet finalized
      Hypothesis(TRUE,  <<>>, FALSE, <<>>),                      \* finalized, text ""
      Hypothesis(TRUE,  <<" ">>, FALSE, <<>>),                   \* finalized, text " "
      Hypothesis(TRUE,  <<"g","o"," ","D","a","s","h">>, TRUE,
                 << Word(1000, 10, 40), Word(500, 200, 260) >>), \* text and two words
      Hypothesis(TRUE,  <<"d","a","s","h">>, TRUE, <<>>),        \* word list present, empty
      Hypothesis(TRUE,  <<"x">>, FALSE, <<>>) }                  \* no word list

None == [is_none |-> TRUE, text |-> <<>>, has_result |-> FALSE, result |-> <<>>]

\* process_audio_chunk, given what the recognizer reports for the chunk
MutantKeepsEmptyText(o) ==
    IF o.final
    THEN [is_none |-> FALSE, text |-> process_text(o.text),
          has_result |-> o.has_result, result |-> o.result]
    ELSE None
MutantRawText(o) ==
    IF o.final /\ o.text # <<>>
    THEN [is_none |-> FALSE, text |-> o.text,
          has_result |-> o.has_result, result |-> o.result]
    ELSE None
process_audio_chunk(o) ==
    IF o.final /\ o.text # <<>>
    THEN [is_none |-> FALSE, text |-> process_text(o.text),
          has_result |-> o.has_result, result |-> o.result]
    ELSE None

\* self.recognition_history.append(result)
MutantPrepend(h, r) == <<r>> \o h
history_append(h, r) == Append(h, r)

RECURSIVE sum_conf(_)
sum_conf(ws) == IF ws = <<>> THEN 0 ELSE ws[1].conf + sum_conf(Tail(ws))

NoLog == [kind |-> "none", text |-> <<>>, conf |-> 0, start |-> 0, end |-> 0]

\* The list object self.recognition_history, and references to it.
HistoryList == "recognition_history"
NoRef       == "no_list"

\* get_recognition_history(): returns self.recognition_history itself
get_recognition_history == HistoryList

\* The contents seen through a reference
Contents(ref) == IF ref = HistoryList THEN recognition_history ELSE <<>>

NoStop == [called |-> FALSE, pc |-> "", fed |-> 0]

Listening == {"while", "get", "process", "append", "log"}

---------------------------------------------------------------------------
(* Initial state: after the interpreter enters main() *)

InitPipe ==
    /\ running = FALSE
    /\ q = <<>>
    /\ recognition_history = <<>>
    /\ stream = "closed"
    /\ recPc = "unstarted"
    /\ audio_chunk = 0
    /\ result = None
    /\ logged = NoLog
    /\ mainPc = "init"
    /\ exitCode = -1
    /\ history = NoRef
    /\ printed = -1
    /\ captured = 0
    /\ fedLog = <<>>
    /\ openFailed = FALSE
    /\ loopError = FALSE
    /\ startOutcome = "pending"
    /\ stopMark = NoStop

InitApi ==
    /\ snapshot = NoRef
    /\ snapshotWas = <<>>
    /\ clearBase = 0
    /\ apiCalls = 0

InitTextIdle ==
    /\ text = <<>>
    /\ processed = <<>>
    /\ reprocessed = <<>>
    /\ textPc = "idle"

Init == InitPipe /\ InitApi /\ InitTextIdle

---------------------------------------------------------------------------
(* The audio callback (sounddevice's thread): runs once per block while the *)
(* stream is open.                                                          *)

\* a put on a queue of capacity one: waits while the queue is full
MutantBoundedPut ==
    /\ stream = "open"
    /\ captured < MaxChunks
    /\ Len(q) < 1
    /\ captured' = captured + 1
    /\ q' = Append(q, captured + 1)
    /\ UNCHANGED <<running, recognition_history, stream, recPc, audio_chunk, result,
                   logged, mainPc, exitCode, history, printed, fedLog, openFailed,
                   loopError, startOutcome, stopMark>>
    /\ UNCHANGED <<apiVars, textVars>>
\* self.q.put(bytes(indata)); chunks are numbered in capture order
Callback ==
    /\ stream = "open"
    /\ captured < MaxChunks
    /\ captured' = captured + 1
    /\ q' = Append(q, captured + 1)
    /\ UNCHANGED <<running, recognition_history, stream, recPc, audio_chunk, result,
                   logged, mainPc, exitCode, history, printed, fedLog, openFailed,
                   loopError, startOutcome, stopMark>>
    /\ UNCHANGED <<apiVars, textVars>>

---------------------------------------------------------------------------
(* The recognition thread: start_recognition *)

\* self.running = False (the log line has no effect on the state)
stop_recognition == running' = FALSE

\* self.running = True
SetRunning ==
    /\ recPc = "set_running"
    /\ running' = TRUE
    /\ recPc' = "open_stream"
    /\ UNCHANGED <<q, recognition_history, stream, audio_chunk, result, logged, mainPc,
                   exitCode, history, printed, captured, fedLog, openFailed, loopError,
                   startOutcome, stopMark>>
    /\ UNCHANGED <<apiVars, textVars>>

\* with sd.RawInputStream(...): the stream opens
OpenStream ==
    /\ recPc = "open_stream"
    /\ stream' = "open"
    /\ recPc' = "while"
    /\ UNCHANGED <<running, q, recognition_history, audio_chunk, result, logged, mainPc,
                   exitCode, history, printed, captured, fedLog, openFailed, loopError,
                   startOutcome, stopMark>>
    /\ UNCHANGED <<apiVars, textVars>>

\* with sd.RawInputStream(...): the constructor raises; control goes to
\* `except Exception`
OpenStreamRaises ==
    /\ recPc = "open_stream"
    /\ openFailed' = TRUE
    /\ recPc' = "handler"
    /\ UNCHANGED <<running, q, recognition_history, stream, audio_chunk, result, logged,
                   mainPc, exitCode, history, printed, captured, fedLog, loopError,
                   startOutcome, stopMark>>
    /\ UNCHANGED <<apiVars, textVars>>

\* a loop test that does not read the run flag
MutantWhileIgnoresFlag ==
    /\ recPc = "while"
    /\ recPc' = "get"
    /\ UNCHANGED <<running, q, recognition_history, stream, audio_chunk, result, logged,
                   mainPc, exitCode, history, printed, captured, fedLog, openFailed,
                   loopError, startOutcome, stopMark>>
    /\ UNCHANGED <<apiVars, textVars>>
\* while self.running: true, enter the body
WhileEnter ==
    /\ recPc = "while"
    /\ running
    /\ recPc' = "get"
    /\ UNCHANGED <<running, q, recognition_history, stream, audio_chunk, result, logged,
                   mainPc, exitCode, history, printed, captured, fedLog, openFailed,
                   loopError, startOutcome, stopMark>>
    /\ UNCHANGED <<apiVars, textVars>>

\* while self.running: false, leave the loop, the with block closes the stream
\* and start_recognition returns
WhileExit ==
    /\ recPc = "while"
    /\ ~running
    /\ stream' = "closed"
    /\ recPc' = "done"
    /\ startOutcome' = "returned"
    /\ UNCHANGED <<running, q, recognition_history, audio_chunk, result, logged, mainPc,
                   exitCode, history, printed, captured, fedLog, openFailed, loopError,
                   stopMark>>
    /\ UNCHANGED <<apiVars, textVars>>

\* a get that takes the newest chunk instead of the oldest
MutantGetLast ==
    /\ recPc = "get"
    /\ q # <<>>
    /\ audio_chunk' = q[Len(q)]
    /\ q' = SubSeq(q, 1, Len(q) - 1)
    /\ recPc' = "process"
    /\ UNCHANGED <<running, recognition_history, stream, result, logged, mainPc,
                   exitCode, history, printed, captured, fedLog, openFailed, loopError,
                   startOutcome, stopMark>>
    /\ UNCHANGED <<apiVars, textVars>>
\* audio_chunk = self.q.get(): blocks, without timeout, while the queue is empty
QueueGet ==
    /\ recPc = "get"
    /\ q # <<>>
    /\ audio_chunk' = Head(q)
    /\ q' = Tail(q)
    /\ recPc' = "process"
    /\ UNCHANGED <<running, recognition_history, stream, result, logged, mainPc,
                   exitCode, history, printed, captured, fedLog, openFailed, loopError,
                   startOutcome, stopMark>>
    /\ UNCHANGED <<apiVars, textVars>>

\* result = self.process_audio_chunk(audio_chunk); if result: ...
ProcessChunk ==
    /\ recPc = "process"
    /\ \E o \in Outcomes :
          /\ fedLog' = Append(fedLog, [chunk |-> audio_chunk, hyp |-> o])
          /\ result' = process_audio_chunk(o)
    /\ recPc' = IF result'.is_none THEN "while" ELSE "append"
    /\ UNCHANGED <<running, q, recognition_history, stream, audio_chunk, logged, mainPc,
                   exitCode, history, printed, captured, openFailed, loopError,
                   startOutcome, stopMark>>
    /\ UNCHANGED <<apiVars, textVars>>

\* the append left for after the logging, which an exception then skips
MutantAppendSkipped ==
    /\ recPc = "append"
    /\ recPc' = "log"
    /\ UNCHANGED <<running, q, recognition_history, stream, audio_chunk, result, logged,
                   mainPc, exitCode, history, printed, captured, fedLog, openFailed,
                   loopError, startOutcome, stopMark>>
    /\ UNCHANGED <<apiVars, textVars>>
\* self.recognition_history.append(result)
AppendResult ==
    /\ recPc = "append"
    /\ recognition_history' = history_append(recognition_history, result)
    /\ recPc' = "log"
    /\ UNCHANGED <<running, q, stream, audio_chunk, result, logged, mainPc, exitCode,
                   history, printed, captured, fedLog, openFailed, loopError,
                   startOutcome, stopMark>>
    /\ UNCHANGED <<apiVars, textVars>>

\* the span's end taken from the first word instead of the last
MutantLogFirstWordEnd ==
    /\ recPc = "log"
    /\ result.has_result
    /\ Len(result.result) # 0
    /\ logged' = [kind  |-> "full",
                  text  |-> result.text,
                  conf  |-> sum_conf(result.result) \div Len(result.result),
                  start |-> result.result[1].start,
                  end   |-> result.result[1].end]
    /\ recPc' = "while"
    /\ UNCHANGED <<running, q, recognition_history, stream, audio_chunk, result, mainPc,
                   exitCode, history, printed, captured, fedLog, openFailed, loopError,
                   startOutcome, stopMark>>
    /\ UNCHANGED <<apiVars, textVars>>
\* "result" in result, the word list is not empty: confidence and span are logged
LogWithWords ==
    /\ recPc = "log"
    /\ result.has_result
    /\ Len(result.result) # 0
    /\ logged' = [kind  |-> "full",
                  text  |-> result.text,
                  conf  |-> sum_conf(result.result) \div Len(result.result),
                  start |-> result.result[1].start,
                  end   |-> result.result[Len(result.result)].end]
    /\ recPc' = "while"
    /\ UNCHANGED <<running, q, recognition_history, stream, audio_chunk, result, mainPc,
                   exitCode, history, printed, captured, fedLog, openFailed, loopError,
                   startOutcome, stopMark>>
    /\ UNCHANGED <<apiVars, textVars>>

\* "result" in result, the word list is empty: sum(...) / len(...) raises
\* ZeroDivisionError, which `except queue.Empty` does not catch; it leaves the
\* loop and the with block (the stream closes) and reaches `except Exception`
LogAggregationRaises ==
    /\ recPc = "log"
    /\ result.has_result
    /\ Len(result.result) = 0
    /\ stream' = "closed"
    /\ loopError' = TRUE
    /\ recPc' = "handler"
    /\ UNCHANGED <<running, q, recognition_history, audio_chunk, result, logged, mainPc,
                   exitCode, history, printed, captured, fedLog, openFailed,
                   startOutcome, stopMark>>
    /\ UNCHANGED <<apiVars, textVars>>

\* no "result" key: self.logger.info(f"Recognized: {text}")
LogTextOnly ==
    /\ recPc = "log"
    /\ ~result.has_result
    /\ logged' = [kind |-> "text", text |-> result.text, conf |-> 0, start |-> 0,
                  end |-> 0]
    /\ recPc' = "while"
    /\ UNCHANGED <<running, q, recognition_history, stream, audio_chunk, result, mainPc,
                   exitCode, history, printed, captured, fedLog, openFailed, loopError,
                   startOutcome, stopMark>>
    /\ UNCHANGED <<apiVars, textVars>>

\* except Exception as e: log the error, self.stop_recognition(); the function
\* then returns normally: the exception does not leave start_recognition
ErrorHandler ==
    /\ recPc = "handler"
    /\ stop_recognition
    /\ recPc' = "done"
    /\ startOutcome' = "returned"
    /\ UNCHANGED <<q, recognition_history, stream, audio_chunk, result, logged, mainPc,
                   exitCode, history, printed, captured, fedLog, openFailed, loopError,
                   stopMark>>
    /\ UNCHANGED <<apiVars, textVars>>

ThreadNext ==
    \/ SetRunning
    \/ OpenStream
    \/ OpenStreamRaises
    \/ WhileEnter
    \/ WhileExit
    \/ QueueGet
    \/ ProcessChunk
    \/ AppendResult
    \/ LogWithWords
    \/ LogAggregationRaises
    \/ LogTextOnly
    \/ ErrorHandler

---------------------------------------------------------------------------
(* main(): the controller *)

\* recognizer = AdvancedVoiceRecognition() succeeds
Construct ==
    /\ mainPc = "init"
    /\ mainPc' = "spawn"
    /\ UNCHANGED <<running, q, recognition_history, stream, recPc, audio_chunk, result,
                   logged, exitCode, history, printed, captured, fedLog, openFailed,
                   loopError, startOutcome, stopMark>>
    /\ UNCHANGED <<apiVars, textVars>>

\* the handler of the constructor's exception exits with code 0
MutantExitZero ==
    /\ mainPc = "init"
    /\ mainPc' = "exited"
    /\ exitCode' = 0
    /\ UNCHANGED <<running, q, recognition_history, stream, recPc, audio_chunk, result,
                   logged, history, printed, captured, fedLog, openFailed, loopError,
                   startOutcome, stopMark>>
    /\ UNCHANGED <<apiVars, textVars>>
\* the constructor raises (model load): logging.error, sys.exit(1)
ConstructRaises ==
    /\ mainPc = "init"
    /\ mainPc' = "exited"
    /\ exitCode' = 1
    /\ UNCHANGED <<running, q, recognition_history, stream, recPc, audio_chunk, result,
                   logged, history, printed, captured, fedLog, openFailed, loopError,
                   startOutcome, stopMark>>
    /\ UNCHANGED <<apiVars, textVars>>

\* recognition_thread = threading.Thread(...); recognition_thread.start()
StartThread ==
    /\ mainPc = "spawn"
    /\ recPc' = "set_running"
    /\ mainPc' = "sleep"
    /\ UNCHANGED <<running, q, recognition_history, stream, audio_chunk, result, logged,
                   exitCode, history, printed, captured, fedLog, openFailed, loopError,
                   startOutcome, stopMark>>
    /\ UNCHANGED <<apiVars, textVars>>

\* Ctrl+C inside the try block (while starting the thread, or in the sleep
\* loop): control goes to `except KeyboardInterrupt`
KeyboardInterrupt ==
    /\ mainPc \in {"spawn", "sleep"}
    /\ mainPc' = "stop"
    /\ UNCHANGED <<running, q, recognition_history, stream, recPc, audio_chunk, result,
                   logged, exitCode, history, printed, captured, fedLog, openFailed,
                   loopError, startOutcome, stopMark>>
    /\ UNCHANGED <<apiVars, textVars>>

\* recognizer.stop_recognition()
MainStop ==
    /\ mainPc = "stop"
    /\ stop_recognition
    /\ stopMark' = [called |-> TRUE, pc |-> recPc, fed |-> Len(fedLog)]
    /\ mainPc' = "join"
    /\ UNCHANGED <<q, recognition_history, stream, recPc, audio_chunk, result, logged,
                   exitCode, history, printed, captured, fedLog, openFailed, loopError,
                   startOutcome>>
    /\ UNCHANGED <<apiVars, textVars>>

\* join() that returns without waiting for the thread to terminate
MutantJoinNoWait ==
    /\ mainPc = "join"
    /\ recPc # "unstarted"
    /\ mainPc' = "summary"
    /\ UNCHANGED <<running, q, recognition_history, stream, recPc, audio_chunk, result,
                   logged, exitCode, history, printed, captured, fedLog, openFailed,
                   loopError, startOutcome, stopMark>>
    /\ UNCHANGED <<apiVars, textVars>>
\* recognition_thread.join(): returns once the thread has terminated
Join ==
    /\ mainPc = "join"
    /\ recPc = "done"
    /\ mainPc' = "summary"
    /\ UNCHANGED <<running, q, recognition_history, stream, recPc, audio_chunk, result,
                   logged, exitCode, history, printed, captured, fedLog, openFailed,
                   loopError, startOutcome, stopMark>>
    /\ UNCHANGED <<apiVars, textVars>>

\* recognition_thread.join() when the interrupt came before the thread was
\* started: the name is unbound (or the thread not started), join raises and
\* the process ends with a traceback
JoinRaises ==
    /\ mainPc = "join"
    /\ recPc = "unstarted"
    /\ mainPc' = "crashed"
    /\ exitCode' = 1
    /\ UNCHANGED <<running, q, recognition_history, stream, recPc, audio_chunk, result,
                   logged, history, printed, captured, fedLog, openFailed, loopError,
                   startOutcome, stopMark>>
    /\ UNCHANGED <<apiVars, textVars>>

\* history = recognizer.get_recognition_history(); print(... len(history));
\* main returns and the process exits with code 0
Summary ==
    /\ mainPc = "summary"
    /\ history' = get_recognition_history
    /\ printed' = Len(Contents(history'))
    /\ mainPc' = "exited"
    /\ exitCode' = 0
    /\ UNCHANGED <<running, q, recognition_history, stream, recPc, audio_chunk, result,
                   logged, captured, fedLog, openFailed, loopError, startOutcome,
                   stopMark>>
    /\ UNCHANGED <<apiVars, textVars>>

MainNext ==
    \/ Construct
    \/ ConstructRaises
    \/ StartThread
    \/ MainStop
    \/ Join
    \/ JoinRaises
    \/ Summary

Next == ThreadNext \/ MainNext \/ Callback \/ KeyboardInterrupt

Spec == Init /\ [][Next]_vars

\* The interpreter schedules every runnable thread, so the recognition thread
\* and main() keep taking their steps.  Nothing obliges the device to deliver
\* another block or the user to press Ctrl+C.
FairSpec == Spec /\ WF_vars(ThreadNext) /\ WF_vars(MainNext)

---------------------------------------------------------------------------
(* A client of the class that holds the object while the pipeline runs and   *)
(* calls its public history methods.                                         *)

ObjectAlive == mainPc \notin {"init", "exited", "crashed"}

\* snapshot = recognizer.get_recognition_history()
ClientGetHistory ==
    /\ ObjectAlive
    /\ apiCalls < MaxApiCalls
    /\ apiCalls' = apiCalls + 1
    /\ snapshot' = get_recognition_history
    /\ snapshotWas' = Contents(snapshot')
    /\ UNCHANGED <<pipeVars, clearBase, textVars>>

\* recognizer.clear_history(): self.recognition_history.clear()
ClientClearHistory ==
    /\ ObjectAlive
    /\ apiCalls < MaxApiCalls
    /\ apiCalls' = apiCalls + 1
    /\ recognition_history' = <<>>
    /\ clearBase' = clearBase + Len(recognition_history)
    /\ UNCHANGED <<running, q, stream, recPc, audio_chunk, result, logged, mainPc,
                   exitCode, history, printed, captured, fedLog, openFailed, loopError,
                   startOutcome, stopMark>>
    /\ UNCHANGED <<snapshot, snapshotWas, textVars>>

NextApi == Next \/ ClientGetHistory \/ ClientClearHistory

SpecApi == Init /\ [][NextApi]_vars

---------------------------------------------------------------------------
(* process_text applied to bounded inputs *)

Pieces ==
    { <<"d","a","s","h">>,
      <<"D","a","S","h">>,
      <<"h","y","p","h","e","n">>,
      <<"M","I","N","U","S">>,
      <<"d","a","s","h","e","s">>,
      <<"x">>,
      <<"-">>,
      <<" ">>,
      <<"\t">> }

RECURSIVE Concats(_)
Concats(n) ==
    IF n = 0 THEN { <<>> }
    ELSE LET prev == Concats(n - 1)
         IN  prev \cup { p \o t : p \in Pieces, t \in prev }

Inputs == Concats(MaxPieces)

InitText ==
    /\ InitPipe
    /\ InitApi
    /\ text \in Inputs
    /\ processed = <<>>
    /\ reprocessed = <<>>
    /\ textPc = "input"

ProcessText ==
    /\ textPc = "input"
    /\ processed' = process_text(text)
    /\ textPc' = "once"
    /\ UNCHANGED <<pipeVars, apiVars, text, reprocessed>>

ReprocessText ==
    /\ textPc = "once"
    /\ reprocessed' = process_text(processed)
    /\ textPc' = "twice"
    /\ UNCHANGED <<pipeVars, apiVars, text, processed>>

NextText == ProcessText \/ ReprocessText

SpecText == InitText /\ [][NextText]_vars

---------------------------------------------------------------------------
(* Vocabulary of the properties *)

\* The tokens of s, read off s directly: the maximal runs of non-whitespace
\* characters, from left to right.
TokenRuns(s) ==
    { r \in (1..Len(s)) \X (1..Len(s)) :
        /\ r[1] <= r[2]
        /\ \A k \in r[1]..r[2] : s[k] \notin Whitespace
        /\ (r[1] = 1 \/ s[r[1] - 1] \in Whitespace)
        /\ (r[2] = Len(s) \/ s[r[2] + 1] \in Whitespace) }

Tokens(s) ==
    LET runs == TokenRuns(s)
        nth(k) == CHOOSE r \in runs : Cardinality({ x \in runs : x[1] < r[1] }) = k - 1
    IN  [k \in 1..Cardinality(runs) |-> SubSeq(s, nth(k)[1], nth(k)[2])]

MappedWords == { <<"d","a","s","h">>, <<"h","y","p","h","e","n">>, <<"m","i","n","u","s">> }

IsMappedToken(t) == lower(t) \in MappedWords

\* s is written with single spaces between tokens and nothing around them
SingleSpaced(s) ==
    /\ \A k \in 1..Len(s) : s[k] \in Whitespace => s[k] = " "
    /\ s # <<>> => (s[1] # " " /\ s[Len(s)] # " ")
    /\ \A k \in 1..(Len(s) - 1) : ~(s[k] = " " /\ s[k + 1] = " ")

\* The chunks for which the Transducer reported a finalized utterance with
\* non-empty text, in the order they were fed
IsUtterance(e) == e.hyp.final /\ e.hyp.text # <<>>
Utterances == SelectSeq(fedLog, IsUtterance)

\* How many of them the loop has appended (the last one is pending while the
\* loop stands before the append)
Appended == Len(Utterances) - (IF recPc = "append" THEN 1 ELSE 0)

StoredFor(e) == [is_none |-> FALSE, text |-> process_text(e.hyp.text),
                 has_result |-> e.hyp.has_result, result |-> e.hyp.result]

---------------------------------------------------------------------------
(* C1: once stop_recognition() has been called while the loop is Listening, *)
(* the loop exits and join returns even if the audio callback never         *)
(* enqueues another chunk: until it has terminated, the recognition thread  *)
(* always has a step of its own to take.  Stated as claimed; the code's     *)
(* q.get() without timeout waits for the producer.                          *)
C1_StopNeverWaitsForProducer ==
    (stopMark.called /\ stopMark.pc \in Listening)
        => (recPc = "done" \/ ENABLED ThreadNext)

(* C2: when stop is requested before any chunk has been processed, the      *)
(* history is empty once the recognition thread has terminated.  Stated as  *)
(* claimed; the loop still processes the chunk it is waiting for.           *)
C2_EarlyStopLeavesHistoryEmpty ==
    (stopMark.called /\ stopMark.fed = 0 /\ recPc = "done")
        => recognition_history = <<>>

(* C3: aggregation over a present but empty word list is recovered inside   *)
(* the loop: the step that meets it keeps the loop Listening, the stream    *)
(* open and the run flag as it was.  Stated as claimed; the code's          *)
(* ZeroDivisionError leaves the loop.                                       *)
C3_AggregationRecovered ==
    [][ (recPc = "log" /\ result.has_result /\ Len(result.result) = 0
            /\ recPc' # recPc)
        => (recPc' \in Listening /\ running' = running /\ stream' = "open") ]_vars

(* C4: process_text returns the whitespace-separated tokens of its input in *)
(* their order, each token equal to "dash", "hyphen" or "minus" without     *)
(* regard to case replaced by "-", every other token as written.            *)
C4_TokensMappedInOrder ==
    textPc # "input" =>
        LET tin  == Tokens(text)
            tout == Tokens(processed)
        IN  /\ Len(tout) = Len(tin)
            /\ \A k \in 1..Len(tin) :
                  tout[k] = IF IsMappedToken(tin[k]) THEN <<"-">> ELSE tin[k]

\* An input with a mixed-case mapped token, a token that only contains a
\* mapped word, and the output computed for it
C4_Witness ==
    /\ textPc = "once"
    /\ text = <<"D","a","S","h"," ","d","a","s","h","e","s">>
    /\ processed = <<"-"," ","d","a","s","h","e","s">>

(* C5 as claimed: for any s without a mapped token, process_text(s) = s.    *)
C5_IdentityWithoutMappedTokens ==
    (textPc # "input" /\ \A k \in 1..Len(Tokens(text)) : ~IsMappedToken(Tokens(text)[k]))
        => processed = text

(* C5 amended: for any s without a mapped token, process_text(s) has the    *)
(* tokens of s, and equals s exactly when s is written with single spaces   *)
(* between its tokens and no whitespace around them.                        *)
C5_IdentityUpToWhitespace ==
    (textPc # "input" /\ \A k \in 1..Len(Tokens(text)) : ~IsMappedToken(Tokens(text)[k]))
        => /\ Tokens(processed) = Tokens(text)
           /\ (processed = text) <=> SingleSpaced(text)

\* A single-spaced input without mapped tokens, returned as it is
C5_Witness ==
    /\ textPc = "once"
    /\ text = <<"d","a","s","h","e","s"," ","x">>
    /\ processed = text

(* C6: between calls of clear_history the history only grows at its end,   *)
(* by at most one result per step, and it is the sequence of the finalized  *)
(* non-empty results in the order their chunks were captured: nothing is    *)
(* reordered, removed or deduplicated.                                      *)
C6_AppendOnlyInCaptureOrder ==
    /\ [][ \/ recognition_history' = recognition_history
           \/ /\ Len(recognition_history') = Len(recognition_history) + 1
              /\ SubSeq(recognition_history', 1, Len(recognition_history))
                    = recognition_history
           \/ (apiCalls' # apiCalls /\ recognition_history' = <<>>) ]_vars
    /\ [] ( /\ \A i, j \in 1..Len(fedLog) : i < j => fedLog[i].chunk < fedLog[j].chunk
            /\ clearBase <= Appended
            /\ recognition_history =
                  [i \in 1..(Appended - clearBase) |-> StoredFor(Utterances[clearBase + i])] )

\* Two different results in the history, appended after a clear_history that
\* removed an earlier one
C6_Witness ==
    /\ clearBase = 1
    /\ Len(recognition_history) = 2
    /\ recognition_history[1] # recognition_history[2]

(* C7: the sequence returned by get_recognition_history is a copy: what a   *)
(* caller reads through it stays what it was when it was returned.  Stated  *)
(* as claimed; the code returns the list object itself.                     *)
C7_SnapshotIsACopy ==
    snapshot # NoRef => Contents(snapshot) = snapshotWas

(* C8 as claimed: every entry of the history comes from a chunk reported    *)
(* finalized with non-empty text, stores process_text of that text, and its *)
(* stored text is not empty.                                                *)
C8_EntriesAreNonEmptyUtterances ==
    /\ clearBase + Len(recognition_history) <= Len(Utterances)
    /\ \A i \in 1..Len(recognition_history) :
          LET e == Utterances[clearBase + i]
          IN  /\ e.hyp.final
              /\ e.hyp.text # <<>>
              /\ recognition_history[i].text = process_text(e.hyp.text)
              /\ recognition_history[i].text # <<>>

(* C8 amended: every entry of the history comes from a chunk reported       *)
(* finalized with non-empty text and stores process_text of that text; the  *)
(* stored text is non-empty exactly when that text has a character that is  *)
(* not whitespace.                                                          *)
C8_EntriesAreProcessedUtterances ==
    /\ clearBase + Len(recognition_history) <= Len(Utterances)
    /\ \A i \in 1..Len(recognition_history) :
          LET e == Utterances[clearBase + i]
          IN  /\ e.hyp.final
              /\ e.hyp.text # <<>>
              /\ recognition_history[i].text = process_text(e.hyp.text)
              /\ (recognition_history[i].text # <<>>)
                    <=> (\E k \in 1..Len(e.hyp.text) : e.hyp.text[k] \notin Whitespace)

\* The history holds the entry of an utterance whose text had a mapped word
C8_Witness ==
    /\ Len(recognition_history) >= 1
    /\ recognition_history[1].text = <<"g","o"," ","-">>
    /\ fedLog[Len(fedLog)].hyp.text = <<"g","o"," ","D","a","s","h">>

(* C9: when opening the stream fails, the thread ends with the run flag     *)
(* false, nothing dequeued or fed, the history empty, and the failure       *)
(* surfaced to the caller of start_recognition.  Stated as claimed; the     *)
(* code catches the exception and returns normally.                         *)
C9_OpenFailureSurfaced ==
    (openFailed /\ recPc = "done")
        => /\ ~running
           /\ stream = "closed"
           /\ fedLog = <<>>
           /\ audio_chunk = 0
           /\ recognition_history = <<>>
           /\ startOutcome = "raised"

(* C10: when an error has stopped the loop in mid-session, the process      *)
(* eventually prints the final summary, with no user interrupt assumed.     *)
(* Stated as claimed; main() stays in its sleep loop until Ctrl+C.          *)
C10_ErrorLeadsToSummary ==
    (loopError /\ recPc = "done") ~> (printed >= 0)

(* C11: main() reads the history only after the recognition thread has      *)
(* terminated, so no read is concurrent with an append, and the count it    *)
(* prints is the number of finalized non-empty utterances of the session.   *)
C11_SummaryAfterJoin ==
    /\ (mainPc = "summary" \/ history # NoRef \/ printed >= 0) => recPc = "done"
    /\ printed >= 0 =>
          /\ printed = Len(Utterances)
          /\ printed = Len(Contents(history))

\* The summary has been printed for a session with two utterances
C11_Witness ==
    /\ mainPc = "exited"
    /\ history = HistoryList
    /\ printed = 2
    /\ Len(fedLog) = 3

(* C12: when the constructor fails the process exits with code 1 and the    *)
(* recognition thread is never started nor the stream opened; a stop by     *)
(* interrupt that runs to the summary ends the process with code 0.         *)
C12_ExitCodes ==
    /\ (mainPc = "exited" /\ printed < 0) =>
          /\ exitCode = 1
          /\ recPc = "unstarted"
          /\ stream = "closed"
          /\ ~running
          /\ captured = 0
    /\ (mainPc = "exited" /\ printed >= 0) =>
          /\ exitCode = 0
          /\ stopMark.called
    /\ (mainPc \notin {"exited", "crashed"}) <=> (exitCode = -1)

\* The process has ended after a failed construction
C12_Witness ==
    /\ mainPc = "exited"
    /\ exitCode = 1
    /\ recPc = "unstarted"

\* The chunks taken from the queue so far, in the order taken
Dequeued == Len(fedLog) + (IF recPc = "process" THEN 1 ELSE 0)

(* C13: the chunks fed to the Transducer are a prefix of the chunks the     *)
(* callback enqueued: they are consumed in capture order, each at most      *)
(* once, none skipped, duplicated or reordered.                             *)
C13_FedIsPrefixOfCaptured ==
    /\ Len(fedLog) <= captured
    /\ \A i \in 1..Len(fedLog) : fedLog[i].chunk = i
    /\ recPc = "process" => audio_chunk = Len(fedLog) + 1
    /\ q = [i \in 1..(captured - Dequeued) |-> Dequeued + i]

\* Two chunks have been fed while the third waited behind them in the queue
C13_Witness ==
    /\ Len(fedLog) = 2
    /\ captured = 3
    /\ q = <<3>>
    /\ recPc = "get"

(* C14: the callback's enqueue never blocks: while the stream is open it    *)
(* can run in every state, whatever the queue length and whatever the loop  *)
(* is doing (up to the number of chunks a run delivers).                    *)
C14_PutNeverBlocks ==
    (stream = "open" /\ captured < MaxChunks) => ENABLED Callback

\* The callback can enqueue behind a waiting chunk while the loop is inside
\* the Transducer and has already been told to stop
C14_Witness ==
    /\ stream = "open"
    /\ Len(q) = 1
    /\ recPc = "process"
    /\ ~running
    /\ captured < MaxChunks
    /\ ENABLED Callback

(* C15: processing a chunk that the Transducer reports as not yet finalized, *)
(* or as finalized with empty text, emits no result and leaves the history, *)
(* the log and the run flag as they were; the loop goes back to its test.   *)
C15_NoResultForPartialOrEmpty ==
    [][ (recPc = "process" /\ recPc' # "process"
            /\ LET h == fedLog'[Len(fedLog')].hyp IN ~h.final \/ h.text = <<>>)
        => /\ result' = None
           /\ recPc' = "while"
           /\ recognition_history' = recognition_history
           /\ logged' = logged
           /\ running' = running ]_vars

\* After one utterance, a partial and an empty hypothesis have been processed
\* and the history still holds the one entry
C15_Witness ==
    /\ Len(fedLog) = 3
    /\ IsUtterance(fedLog[1])
    /\ ~fedLog[2].hyp.final
    /\ fedLog[3].hyp.final /\ fedLog[3].hyp.text = <<>>
    /\ Len(recognition_history) = 1
    /\ recPc = "while"

(* C16: for a result with a non-empty word list the logged confidence is    *)
(* the arithmetic mean of the words' confidences (1.0 and 0.5 give 0.75)    *)
(* and the logged span runs from the first word's start to the last word's  *)
(* end; for an empty or absent word list no confidence and no span are      *)
(* logged.                                                                  *)
C16_MeanConfidenceAndSpan ==
    [][ (recPc = "log" /\ recPc' # "log") =>
          LET ws == result.result
              n  == Len(ws)
          IN  IF result.has_result /\ n > 0
              THEN /\ logged'.kind = "full"
                   /\ logged'.text = result.text
                   /\ logged'.conf * n = sum_conf(ws)
                   /\ (n = 2 /\ ws[1].conf = 1000 /\ ws[2].conf = 500)
                         => logged'.conf = 750
                   /\ logged'.start = ws[1].start
                   /\ logged'.end = ws[n].end
              ELSE \/ logged' = logged
                   \/ /\ logged'.kind = "text"
                      /\ logged'.text = result.text
                      /\ ~result.has_result ]_vars

\* The utterance "go Dash" with words (1.0, 0.1-0.4) and (0.5, 2.0-2.6) has
\* been logged
C16_Witness ==
    /\ logged.kind = "full"
    /\ logged.conf = 750
    /\ logged.start = 10
    /\ logged.end = 260
    /\ logged.text = <<"g","o"," ","-">>

(* C17: a stop request is never lost: once main() has called                *)
(* stop_recognition(), the run flag is false for the rest of the session,   *)
(* in every interleaving with the thread's start_recognition().  Stated as  *)
(* claimed; the thread's own self.running = True can come after the stop.   *)
C17_StopIsNeverLost ==
    stopMark.called => ~running

\* What the session had dequeued and appended when main() called stop
StopDequeued == stopMark.fed + (IF stopMark.pc = "process" THEN 1 ELSE 0)
StopAppended ==
    Len(SelectSeq(SubSeq(fedLog, 1, stopMark.fed), IsUtterance))
        - (IF stopMark.pc = "append" THEN 1 ELSE 0)

(* C18: after stop_recognition() is called while the loop is Listening, at  *)
(* most one more chunk is dequeued and fed to the Transducer and at most    *)
(* one more result is appended; once the loop has exited, the chunks left   *)
(* in the queue stay there and nothing more is fed or appended.             *)
C18_AtMostOneMoreChunk ==
    /\ [] ( (stopMark.called /\ stopMark.pc \in Listening) =>
               /\ Dequeued <= StopDequeued + 1
               /\ Len(fedLog) <= stopMark.fed + 1
               /\ Len(recognition_history) <= StopAppended + 1 )
    /\ [][ recPc = "done" =>
               /\ recPc' = "done"
               /\ q' = q
               /\ fedLog' = fedLog
               /\ recognition_history' = recognition_history ]_vars

\* Stop came while the loop waited in get; it took one more chunk, appended
\* its result and exited with a chunk left in the queue
C18_Witness ==
    /\ stopMark.called
    /\ stopMark.pc = "get"
    /\ recPc = "done"
    /\ Len(fedLog) = stopMark.fed + 1
    /\ Len(recognition_history) = StopAppended + 1
    /\ q # <<>>

(* C19: a finalized non-empty result is appended to the history before its  *)
(* confidence is aggregated or logged, so when the aggregation fails the    *)
(* result is in the history and is counted in the final summary.            *)
C19_AppendedBeforeAggregation ==
    LET n == Len(recognition_history)
    IN  /\ recPc = "log" => (n >= 1 /\ recognition_history[n] = result)
        /\ loopError =>
              /\ n >= 1
              /\ recognition_history[n] = result
              /\ result.has_result /\ result.result = <<>>
              /\ n = Len(Utterances)
              /\ printed >= 0 => printed = n

\* The aggregation of the second utterance failed and the summary counted both
C19_Witness ==
    /\ loopError
    /\ printed = 2
    /\ recognition_history[2].text = <<"-">>
    /\ recognition_history[2].result = <<>>

(* C20: process_text is idempotent: process_text(process_text(s)) equals    *)
(* process_text(s) for every input s.                                       *)
C20_ProcessTextIdempotent ==
    textPc = "twice" => reprocessed = processed

\* An input that process_text changes, processed twice
C20_Witness ==
    /\ textPc = "twice"
    /\ text = <<" ","D","a","S","h","\t">>
    /\ processed = <<"-">>
    /\ reprocessed = <<"-">>

====
